---- MODULE Spec2Model ----
(***************************************************************************)
(* Model of pkg/apis/fleet.cattle.io/v1alpha1/JSON/validate.py: the script *)
(* opens fleet-combined.schema.json, parses it with json.load, hands the   *)
(* parsed document to Draft202012Validator.check_schema and prints one of  *)
(* two messages.                                                           *)
(*                                                                         *)
(* The file's text is a sequence of JSON tokens separated by blanks.  The  *)
(* two library calls are modelled by what they do on that fragment:        *)
(* json.load by a recursive-descent parser, check_schema by the rules of   *)
(* the 2020-12 metaschema for the keyword "type".  The text of a schema    *)
(* error's message and the library's internal failures (RecursionError)    *)
(* are the library's choice; the choice is fixed per document (lib).      *)
(***************************************************************************)
EXTENDS Naturals, Integers, Sequences, FiniteSets, TLC

VARIABLES
  file,      \* the file system entry "fleet-combined.schema.json"
  pc,        \* the statement the interpreter is at
  f,         \* the file object bound by "with ... as f"
  text,      \* what f.read() returned, inside json.load
  schema,    \* <<>> while unbound, <<document>> once line 5 assigned it
  exc,       \* <<>> or <<exception in flight>>
  e,         \* <<>> or <<exception bound by "except ... as e">>
  stdout,    \* lines printed so far by this run
  stderr,    \* lines of the interpreter's traceback report
  exitcode,  \* NotExited while running, then the process's exit status
  trace,     \* the steps this run has performed, in order
  checked,   \* this run's calls of check_schema: argument and outcome
  runs,      \* what the completed runs observed and produced
  lib        \* what check_schema answered so far, per document

vars == <<file, pc, f, text, schema, exc, e, stdout, stderr, exitcode,
          trace, checked, runs, lib>>

-----------------------------------------------------------------------------
(* Bounds *)

MaxLen == 5

MaxRuns == 2

-----------------------------------------------------------------------------
(* The file *)

Tokens == {"{", "}", ":", "\"type\"", "\"object\"", "123"}

StringTokens == {"\"type\"", "\"object\""}

NumberTokens == {"123"}

Texts == UNION {[1..n -> Tokens] : n \in 0..MaxLen}

Files ==
  {[kind |-> k, content |-> <<>>] : k \in {"missing", "denied", "undecodable"}}
  \cup {[kind |-> "text", content |-> t] : t \in Texts}

-----------------------------------------------------------------------------
(* Exceptions *)

Exception(cls, message) == [cls |-> cls, message |-> message]

NoException == <<>>

-----------------------------------------------------------------------------
(* json.load: the standard library's decoder on the token fragment *)
(* ScanOnce and JsonLoads follow json/decoder.py (JSONObject, raw_decode,  *)
(* decode); on every text of up to six tokens they give the value or the   *)
(* error message that CPython 3.11's json.loads gives.                     *)

Node(kind, value, members) == [kind |-> kind, value |-> value, members |-> members]

NoValue == Node("none", "", <<>>)

\* the characters between the quotes of a string token
Unquote(tok) == IF tok = "\"type\"" THEN "type" ELSE "object"

Parsed(val, next) == [ok |-> TRUE, val |-> val, next |-> next, msg |-> ""]

Failed(msg, at) == [ok |-> FALSE, val |-> NoValue, next |-> at, msg |-> msg]

RECURSIVE ScanOnce(_, _)
\* json.scanner.scan_once(string, idx): one JSON value starting at token i
ScanOnce(ts, i) ==
  IF i > Len(ts) THEN Failed("Expecting value", i)
  ELSE IF ts[i] \in StringTokens
    THEN Parsed(Node("string", Unquote(ts[i]), <<>>), i + 1)
  ELSE IF ts[i] \in NumberTokens
    THEN Parsed(Node("number", ts[i], <<>>), i + 1)
  ELSE IF ts[i] = "{"
    THEN \* json.decoder.JSONObject
         IF i + 1 <= Len(ts) /\ ts[i + 1] = "}"
           THEN Parsed(Node("object", "", <<>>), i + 2)
         ELSE IF ~(i + 1 <= Len(ts) /\ ts[i + 1] \in StringTokens)
           THEN Failed("Expecting property name enclosed in double quotes", i + 1)
         ELSE IF ~(i + 2 <= Len(ts) /\ ts[i + 2] = ":")
           THEN Failed("Expecting ':' delimiter", i + 2)
         ELSE LET v == ScanOnce(ts, i + 3) IN
              IF ~v.ok THEN v
              ELSE IF v.next <= Len(ts) /\ ts[v.next] = "}"
                THEN Parsed(Node("object", "",
                                 << <<Unquote(ts[i + 1]), v.val>> >>),
                            v.next + 1)
              ELSE Failed("Expecting ',' delimiter", v.next)
  ELSE Failed("Expecting value", i)

\* json.loads(s): one value, then nothing but the end of the text
JsonLoads(ts) ==
  LET r == ScanOnce(ts, 1) IN
  IF ~r.ok THEN r
  ELSE IF r.next # Len(ts) + 1 THEN Failed("Extra data", r.next)
  ELSE r

-----------------------------------------------------------------------------
(* Draft202012Validator.check_schema: the metaschema on the fragment *)

\* $defs/simpleTypes of the 2020-12 validation vocabulary
SimpleTypes ==
  {"array", "boolean", "integer", "null", "number", "object", "string"}

\* A schema is an object (or a boolean); the value of "type" is a simple
\* type's name (or an array of them); other members are not constrained.
MetaschemaConforms(doc) ==
  /\ doc.kind = "object"
  /\ \A i \in DOMAIN doc.members :
       doc.members[i][1] = "type" =>
         /\ doc.members[i][2].kind = "string"
         /\ doc.members[i][2].value \in SimpleTypes

\* the texts best_match may give the error it raises
Messages ==
  {"123 is not valid under any of the given schemas",
   "123 is not of type 'object', 'boolean'"}

\* failures inside the library that are no verdict on the schema
InternalErrors == {"RecursionError"}

Returned == Exception("", "")

\* what a call check_schema(doc) may do: return, or raise
CheckSchemaOutcomes(doc) ==
  (IF MetaschemaConforms(doc)
     THEN {Returned}
     ELSE {Exception("SchemaError", m) : m \in Messages})
  \cup {Exception(c, "maximum recursion depth exceeded") : c \in InternalErrors}

-----------------------------------------------------------------------------
(* The script *)

\* print(*args): the arguments separated by one blank, as one line
PrintLineNoSep(args) ==
  IF Len(args) = 0 THEN ""
  ELSE IF Len(args) = 1 THEN args[1]
  ELSE args[1] \o args[2]

RECURSIVE PrintLine(_)
PrintLine(args) ==
  IF Len(args) = 0 THEN ""
  ELSE IF Len(args) = 1 THEN args[1]
  ELSE args[1] \o " " \o PrintLine(Tail(args))

AfterOpenTruncating(fl) == [fl EXCEPT !.kind = "text", !.content = <<>>]

\* open(path) opens for reading: the file is neither created nor truncated
AfterOpen(fl) == fl

AfterWithLeaking(handle, raising) == IF raising THEN handle ELSE "closed"

\* leaving the with block closes f, whether or not an exception is in flight
AfterWith(handle, raising) == "closed"

CatchesAll(cls) == TRUE

\* "except exceptions.SchemaError": the classes the clause catches
Catches(cls) == cls = "SchemaError"

Init ==
  /\ file \in Files
  /\ pc = "open"
  /\ f = "unbound"
  /\ text = <<>>
  /\ schema = <<>>
  /\ exc = NoException
  /\ e = NoException
  /\ stdout = <<>>
  /\ stderr = <<>>
  /\ exitcode = <<>>
  /\ trace = <<>>
  /\ checked = <<>>
  /\ runs = <<>>
  /\ lib = {}

\* the open wrapped in a handler that falls back to the empty schema
OpenDefaulting ==
  /\ pc = "open"
  /\ trace' = Append(trace, "open")
  /\ IF file.kind \in {"missing", "denied"}
       THEN /\ schema' = <<Node("object", "", <<>>)>>
            /\ pc' = "check"
            /\ UNCHANGED <<file, f>>
       ELSE /\ f' = "open"
            /\ file' = AfterOpen(file)
            /\ pc' = "read"
            /\ UNCHANGED schema
  /\ UNCHANGED <<text, exc, e, stdout, stderr, exitcode, checked, runs, lib>>

\* line 4: open("fleet-combined.schema.json")
Open ==
  /\ pc = "open"
  /\ trace' = Append(trace, "open")
  /\ IF file.kind = "missing"
       THEN /\ exc' = <<Exception("FileNotFoundError", "No such file or directory")>>
            /\ pc' = "raise"
            /\ UNCHANGED <<file, f>>
     ELSE IF file.kind = "denied"
       THEN /\ exc' = <<Exception("PermissionError", "Permission denied")>>
            /\ pc' = "raise"
            /\ UNCHANGED <<file, f>>
     ELSE /\ f' = "open"
          /\ file' = AfterOpen(file)
          /\ pc' = "read"
          /\ UNCHANGED exc
  /\ UNCHANGED <<text, schema, e, stdout, stderr, exitcode, checked, runs, lib>>

\* line 5: json.load(f) reads the whole file, f.read()
Read ==
  /\ pc = "read"
  /\ trace' = Append(trace, "read")
  /\ IF file.kind = "undecodable"
       THEN /\ exc' = <<Exception("UnicodeDecodeError", "invalid start byte")>>
            /\ pc' = "with_exit"
            /\ UNCHANGED text
       ELSE /\ text' = file.content
            /\ pc' = "parse"
            /\ UNCHANGED exc
  /\ UNCHANGED <<file, f, schema, e, stdout, stderr, exitcode, checked, runs, lib>>

\* the load wrapped in a handler that falls back to the empty schema
ParseDefaulting ==
  /\ pc = "parse"
  /\ trace' = Append(trace, "parse")
  /\ LET r == JsonLoads(text) IN
     schema' = IF r.ok THEN <<r.val>> ELSE <<Node("object", "", <<>>)>>
  /\ pc' = "with_exit"
  /\ UNCHANGED <<file, f, text, exc, e, stdout, stderr, exitcode, checked, runs, lib>>

\* line 5: json.load(f) decodes the text; schema = the document
Parse ==
  /\ pc = "parse"
  /\ trace' = Append(trace, "parse")
  /\ LET r == JsonLoads(text) IN
     IF r.ok
       THEN /\ schema' = <<r.val>>
            /\ UNCHANGED exc
       ELSE /\ exc' = <<Exception("JSONDecodeError", r.msg)>>
            /\ UNCHANGED schema
  /\ pc' = "with_exit"
  /\ UNCHANGED <<file, f, text, e, stdout, stderr, exitcode, checked, runs, lib>>

\* line 4: the with statement's exit, on return and on exception alike
WithExit ==
  /\ pc = "with_exit"
  /\ f' = AfterWith(f, exc # NoException)
  /\ pc' = IF exc = NoException THEN "check" ELSE "raise"
  /\ UNCHANGED <<file, text, schema, exc, e, stdout, stderr, exitcode, trace,
                 checked, runs, lib>>

\* line 8: Draft202012Validator.check_schema(schema)
CheckSchema ==
  /\ pc = "check"
  /\ trace' = Append(trace, "validate")
  /\ \E o \in CheckSchemaOutcomes(schema[1]) :
       /\ checked' = Append(checked, [doc |-> schema[1], outcome |-> o])
       /\ \A a \in lib : a.doc = schema[1] => a.outcome = o
       /\ lib' = lib \cup {[doc |-> schema[1], outcome |-> o]}
       /\ IF o = Returned
            THEN pc' = "print_valid" /\ UNCHANGED exc
            ELSE pc' = "except" /\ exc' = <<o>>
  /\ UNCHANGED <<file, f, text, schema, e, stdout, stderr, exitcode, runs>>

\* the success message with another wording
PrintValidReworded ==
  /\ pc = "print_valid"
  /\ trace' = Append(trace, "print")
  /\ stdout' = Append(stdout, PrintLine(<<"Schema is valid.">>))
  /\ pc' = "end"
  /\ UNCHANGED <<file, f, text, schema, exc, e, stderr, exitcode, checked, runs, lib>>

\* line 9: print("Schema is valid JSON Schema (Draft 2020-12).")
PrintValid ==
  /\ pc = "print_valid"
  /\ trace' = Append(trace, "print")
  /\ stdout' = Append(stdout, PrintLine(<<"Schema is valid JSON Schema (Draft 2020-12).">>))
  /\ pc' = "end"
  /\ UNCHANGED <<file, f, text, schema, exc, e, stderr, exitcode, checked, runs, lib>>

\* a handler that calls check_schema again instead of reporting
ExceptRetrying ==
  /\ pc = "except"
  /\ IF Catches(exc[1].cls)
       THEN exc' = NoException /\ pc' = "check" /\ UNCHANGED e
       ELSE pc' = "raise" /\ UNCHANGED <<exc, e>>
  /\ UNCHANGED <<file, f, text, schema, stdout, stderr, exitcode, trace,
                 checked, runs, lib>>

\* line 10: except exceptions.SchemaError as e
Except ==
  /\ pc = "except"
  /\ IF Catches(exc[1].cls)
       THEN e' = exc /\ exc' = NoException /\ pc' = "print_invalid"
       ELSE pc' = "raise" /\ UNCHANGED <<exc, e>>
  /\ UNCHANGED <<file, f, text, schema, stdout, stderr, exitcode, trace,
                 checked, runs, lib>>

\* the success message placed after the try statement instead of inside it
PrintInvalidFallingThrough ==
  /\ pc = "print_invalid"
  /\ trace' = Append(trace, "print")
  /\ stdout' = Append(stdout, PrintLine(<<"Schema is invalid:", e[1].message>>))
  /\ e' = NoException
  /\ pc' = "print_valid"
  /\ UNCHANGED <<file, f, text, schema, exc, stderr, exitcode, checked, runs, lib>>

\* the message printed by a second call of print
PrintInvalidTwoCalls ==
  /\ pc = "print_invalid"
  /\ trace' = Append(trace, "print")
  /\ stdout' = stdout \o <<PrintLine(<<"Schema is invalid:">>), PrintLine(<<e[1].message>>)>>
  /\ e' = NoException
  /\ pc' = "end"
  /\ UNCHANGED <<file, f, text, schema, exc, stderr, exitcode, checked, runs, lib>>

\* line 11: print("Schema is invalid:", e.message); e is unbound afterwards
PrintInvalid ==
  /\ pc = "print_invalid"
  /\ trace' = Append(trace, "print")
  /\ stdout' = Append(stdout, PrintLine(<<"Schema is invalid:", e[1].message>>))
  /\ e' = NoException
  /\ pc' = "end"
  /\ UNCHANGED <<file, f, text, schema, exc, stderr, exitcode, checked, runs, lib>>

Outcome(status) == [file |-> file, stdout |-> stdout, exitcode |-> status]

\* the end of the module body: the interpreter exits with status 0
Exit ==
  /\ pc = "end"
  /\ trace' = Append(trace, "exit")
  /\ exitcode' = <<0>>
  /\ runs' = Append(runs, Outcome(0))
  /\ pc' = "exited"
  /\ UNCHANGED <<file, f, text, schema, exc, e, stdout, stderr, checked, lib>>

\* an exception left the module body: traceback on stderr, exit status 1
Abort ==
  /\ pc = "raise"
  /\ trace' = Append(trace, "exit")
  /\ stderr' = stderr \o <<"Traceback (most recent call last):",
                           exc[1].cls \o ": " \o exc[1].message>>
  /\ exitcode' = <<1>>
  /\ runs' = Append(runs, Outcome(1))
  /\ pc' = "exited"
  /\ UNCHANGED <<file, f, text, schema, exc, e, stdout, checked, lib>>

\* the script is started again on the same file system
Rerun ==
  /\ pc = "exited"
  /\ Len(runs) < MaxRuns
  /\ pc' = "open"
  /\ f' = "unbound"
  /\ text' = <<>>
  /\ schema' = <<>>
  /\ exc' = NoException
  /\ e' = NoException
  /\ stdout' = <<>>
  /\ stderr' = <<>>
  /\ exitcode' = <<>>
  /\ trace' = <<>>
  /\ checked' = <<>>
  /\ UNCHANGED <<file, runs, lib>>

Step ==
  \/ Open
  \/ Read
  \/ Parse
  \/ WithExit
  \/ CheckSchema
  \/ PrintValid
  \/ Except
  \/ PrintInvalid
  \/ Exit
  \/ Abort

Next == Step \/ Rerun

Spec == Init /\ [][Next]_vars

-----------------------------------------------------------------------------
(* Vocabulary of the properties *)

Exited == pc = "exited"

ValidLine == "Schema is valid JSON Schema (Draft 2020-12)."

InvalidLine(m) == "Schema is invalid: " \o m

\* the file was read and parsed: line 5 bound schema
Loaded == schema # <<>>

\* this run's call of check_schema has finished, with outcome o
CheckGave(o) == \E i \in DOMAIN checked : checked[i].outcome = o

Steps == <<"open", "read", "parse", "validate", "print", "exit">>

StepNo(s) == CHOOSE i \in DOMAIN Steps : Steps[i] = s

\* the steps performed are steps of the sequence, in its order, none twice
InOrder(t) == \A i, j \in DOMAIN t : i < j => StepNo(t[i]) < StepNo(t[j])

\* the position of the interpreter, counted from the end of the script
Remaining ==
  [p \in {"open", "read", "parse", "with_exit", "check", "except",
          "print_valid", "print_invalid", "end", "raise", "exited"} |->
     CASE p = "open" -> 8
       [] p = "read" -> 7
       [] p = "parse" -> 6
       [] p = "with_exit" -> 5
       [] p = "check" -> 4
       [] p = "except" -> 3
       [] p \in {"print_valid", "print_invalid"} -> 2
       [] p \in {"end", "raise"} -> 1
       [] OTHER -> 0]

-----------------------------------------------------------------------------
(* Properties *)

\* C1: when the file was read and parsed and check_schema raised a schema
\* error with message m, the run has printed the one line
\* "Schema is invalid: " followed by m, no exception left the program
\* (nothing in flight, no traceback) and the exit status is 0.
C1_InvalidReported ==
  \A m \in Messages :
    (Exited /\ Loaded /\ CheckGave(Exception("SchemaError", m))) =>
      /\ stdout = <<InvalidLine(m)>>
      /\ exc = NoException
      /\ stderr = <<>>
      /\ exitcode = <<0>>

C1_Witness ==
  /\ Exited /\ Loaded
  /\ \E m \in Messages : CheckGave(Exception("SchemaError", m))
  /\ file.content = <<"{", "\"type\"", ":", "123", "}">>

\* C2: when the file was read and parsed and check_schema returned, the run
\* has printed exactly the line "Schema is valid JSON Schema (Draft 2020-12)."
\* and the exit status is 0.
C2_ValidReported ==
  (Exited /\ Loaded /\ CheckGave(Returned)) =>
    /\ stdout = <<ValidLine>>
    /\ stderr = <<>>
    /\ exitcode = <<0>>

C2_Witness ==
  /\ Exited /\ Loaded /\ CheckGave(Returned)
  /\ file.content = <<"{", "\"type\"", ":", "\"object\"", "}">>

\* C3: when the file exists and its text is not parseable, check_schema is
\* never called and nothing is printed to standard output, and the run ends
\* with the decoder's error, unchanged, as the uncaught exception and a
\* non-zero exit status.
C3_ParseErrorFatal ==
  (file.kind = "text" /\ ~JsonLoads(file.content).ok) =>
    /\ checked = <<>>
    /\ stdout = <<>>
    /\ schema = <<>>
    /\ pc \notin {"check", "except", "print_valid", "print_invalid", "end"}
    /\ Exited =>
         /\ exc = <<Exception("JSONDecodeError", JsonLoads(file.content).msg)>>
         /\ stderr # <<>>
         /\ exitcode = <<1>>

C3_Witness ==
  /\ Exited
  /\ file = [kind |-> "text", content |-> <<"{", "\"type\"", ":">>]
  /\ exitcode = <<1>>

\* C4: when the file does not exist or cannot be opened, nothing is read,
\* parsed, validated or printed, and the run ends with an I/O error as the
\* uncaught exception and a non-zero exit status.
C4_OpenErrorFatal ==
  file.kind \in {"missing", "denied"} =>
    /\ \A i \in DOMAIN trace : trace[i] \in {"open", "exit"}
    /\ f = "unbound" /\ text = <<>> /\ schema = <<>>
    /\ checked = <<>>
    /\ stdout = <<>>
    /\ Exited =>
         /\ exc # NoException
         /\ exc[1].cls \in {"FileNotFoundError", "PermissionError"}
         /\ stderr # <<>>
         /\ exitcode = <<1>>

C4_Witness == Exited /\ file.kind = "missing" /\ exitcode = <<1>>

\* C5 as claimed: every run that has ended wrote exactly one line to
\* standard output.
C5_Original == Exited => Len(stdout) = 1

\* C5, amended: a run that ended with exit status 0 wrote exactly one line
\* to standard output, and a run that ended with an uncaught exception
\* wrote none.
C5_OneLineIffReported ==
  Exited =>
    /\ exitcode \in {<<0>>, <<1>>}
    /\ exitcode = <<0>> => Len(stdout) = 1
    /\ exitcode = <<1>> => Len(stdout) = 0

C5_Witness ==
  /\ Len(runs) = 2
  /\ runs[2].exitcode = 0 /\ Len(runs[2].stdout) = 1
  /\ \E m \in Messages : CheckGave(Exception("SchemaError", m))

\* C6: no handle is left open: once the run has ended f is not open, on
\* whichever path it ended, f is closed whenever it was opened and the with
\* block has been left, and it is closed before check_schema is called.
C6_HandleReleased ==
  /\ Exited => f = (IF "read" \in {trace[i] : i \in DOMAIN trace}
                      THEN "closed" ELSE "unbound")
  /\ pc \in {"check", "except", "print_valid", "print_invalid", "end", "raise"}
       => f # "open"
  /\ checked # <<>> => f = "closed"
  /\ pc = "check" => f = "closed"

C6_Witness ==
  /\ Exited /\ f = "closed" /\ exitcode = <<1>>
  /\ exc # NoException /\ exc[1].cls \in {"JSONDecodeError", "UnicodeDecodeError"}

\* the runs completed so far on the same file agree in output and status
RunsAgree ==
  \A i, j \in DOMAIN runs :
    runs[i].file = runs[j].file =>
      /\ runs[i].stdout = runs[j].stdout
      /\ runs[i].exitcode = runs[j].exitcode

\* C7: no step of a run changes the file, and runs on the same file print
\* the same output and end with the same status.
C7_Idempotent == []RunsAgree /\ [][file' = file]_vars

C7_Witness ==
  /\ Len(runs) = 2
  /\ runs[1].file = runs[2].file
  /\ runs[1].stdout # <<>>
  /\ runs[1].stdout = runs[2].stdout

\* C8 as claimed: the steps are taken in order, each at most once, and every
\* run ends in Reported, having taken all of them.
C8_Original ==
  /\ InOrder(trace)
  /\ Len(checked) <= 1
  /\ Exited => trace = Steps

\* a run that has not ended can take a step, and every step brings the end
\* of the script nearer
C8_Shape ==
  /\ InOrder(trace)
  /\ Len(checked) <= 1
  /\ ~Exited => ENABLED Step
  /\ Exited =>
       /\ trace[Len(trace)] = "exit"
       /\ exitcode = <<0>> <=> trace = Steps
       /\ exitcode = <<0>> <=> stdout # <<>>
       /\ exitcode = <<0>> => Len(checked) = 1
       /\ exitcode = <<1>> <=> exc # NoException

\* C8, amended: the steps open, read, parse, validate, print, exit are taken
\* in that order, each at most once, and the document is validated at most
\* once; every run terminates, in Reported after all six steps when none of
\* them failed (a schema error is no failure), and otherwise with an
\* uncaught exception, the steps after the failed one skipped up to exit.
C8_LinearRun ==
  []C8_Shape /\ [][Step => Remaining[pc'] < Remaining[pc]]_vars

C8_Witness ==
  /\ Len(runs) = 2
  /\ Exited /\ trace = <<"open", "read", "parse", "exit">> /\ exitcode = <<1>>

\* C9: at most one line is printed, and only the line of the outcome
\* check_schema had: the valid line only after it returned, the invalid line
\* only after it raised a schema error with that message; nothing is printed
\* before the check has finished.
C9_LineMatchesOutcome ==
  /\ Len(stdout) <= 1
  /\ stdout # <<>> => Len(checked) = 1
  /\ \A i \in DOMAIN stdout :
       \/ stdout[i] = ValidLine /\ checked[1].outcome = Returned
       \/ /\ checked[1].outcome.cls = "SchemaError"
          /\ stdout[i] = InvalidLine(checked[1].outcome.message)

C9_Witness ==
  /\ pc = "end"
  /\ stdout = <<InvalidLine("123 is not of type 'object', 'boolean'")>>
  /\ file.content = <<"123">>

\* C10: when check_schema fails with an error that is no schema error,
\* nothing is printed, the error stays in flight and the run ends with it as
\* the uncaught exception and a non-zero exit status.
C10_OnlySchemaErrorRecovered ==
  \A i \in DOMAIN checked :
    checked[i].outcome.cls \notin {"", "SchemaError"} =>
      /\ stdout = <<>>
      /\ exc = <<checked[i].outcome>>
      /\ e = NoException
      /\ pc \in {"except", "raise", "exited"}
      /\ Exited => exitcode = <<1>> /\ stderr # <<>>

C10_Witness ==
  /\ Exited /\ exitcode = <<1>>
  /\ CheckGave(Exception("RecursionError", "maximum recursion depth exceeded"))
  /\ MetaschemaConforms(schema[1])

====
